---- MODULE Spec2Model ----
(***************************************************************************)
(* Model of the Image-Compressor-Service (src/main.py): the upload_csv     *)
(* request handler, the validate_csv validator, the process_file           *)
(* background task with compress_image, and the two stores (S3 documents,  *)
(* DynamoDB status records) they share.                                    *)
(*                                                                         *)
(* A Python str is a sequence of one-character strings.  A CSV document is *)
(* the sequence of rows csv.reader yields for it, a row being a sequence   *)
(* of fields (csv.reader / csv.writer are the library boundary).           *)
(***************************************************************************)
EXTENDS Integers, Sequences, FiniteSets, TLC

\* ------------------------------------------------------------------------
\* Bounds
\* ------------------------------------------------------------------------
MaxUploads == 2

\* ------------------------------------------------------------------------
\* Configuration read from the environment
\* ------------------------------------------------------------------------
VALID_HEADERS ==
  << <<"s","n","o">>,
     <<"p","r","o","d","u","c","t","_","n","a","m","e">>,
     <<"i","m","a","g","e","_","u","r","l","s">> >>

MAX_FILE_SIZE == 100

IMAGE_QUALITY == 50

AWS_IMAGE_BUCKET == <<"b">>

AWS_REGION == <<"r">>

\* ------------------------------------------------------------------------
\* Python str helpers
\* ------------------------------------------------------------------------
LowerLetters ==
  <<"a","b","c","d","e","f","g","h","i","j","k","l","m",
    "n","o","p","q","r","s","t","u","v","w","x","y","z">>

UpperLetters ==
  <<"A","B","C","D","E","F","G","H","I","J","K","L","M",
    "N","O","P","Q","R","S","T","U","V","W","X","Y","Z">>

Digits == {"0","1","2","3","4","5","6","7","8","9"}

Letters == {LowerLetters[i] : i \in 1..26} \cup {UpperLetters[i] : i \in 1..26}

\* the class \s of the re module, restricted to the characters of the model
Whitespace == {" ", "\t", "\n", "\r", "\f"}

\* str.lower() on one character; re.IGNORECASE compares through it
LowerChar(c) ==
  IF \E i \in 1..26 : UpperLetters[i] = c
  THEN LowerLetters[CHOOSE i \in 1..26 : UpperLetters[i] = c]
  ELSE c

LowerStr(s) == [i \in 1..Len(s) |-> LowerChar(s[i])]

StartsWith(s, p) == Len(s) >= Len(p) /\ SubSeq(s, 1, Len(p)) = p

EndsWith(s, p) == Len(s) >= Len(p) /\ SubSeq(s, Len(s) - Len(p) + 1, Len(s)) = p

\* str.strip(): drop leading and trailing whitespace
RECURSIVE lstrip(_)
lstrip(s) ==
  IF s # <<>> /\ Head(s) \in Whitespace THEN lstrip(Tail(s)) ELSE s

RECURSIVE rstrip(_)
rstrip(s) ==
  IF s # <<>> /\ s[Len(s)] \in Whitespace
  THEN rstrip(SubSeq(s, 1, Len(s) - 1)) ELSE s

strip(s) == rstrip(lstrip(s))

\* str.split(','): the pieces between the commas, always at least one piece
RECURSIVE SplitFrom(_, _)
SplitFrom(s, cur) ==
  IF s = <<>> THEN <<cur>>
  ELSE IF Head(s) = "," THEN <<cur>> \o SplitFrom(Tail(s), <<>>)
  ELSE SplitFrom(Tail(s), Append(cur, Head(s)))

split(s) == SplitFrom(s, <<>>)

\* str.isdigit(): non-empty and every character a digit
isdigit(s) == s # <<>> /\ \A i \in 1..Len(s) : s[i] \in Digits

\* '$' of the re module matches at the end and before one trailing newline
DollarEnds(s) ==
  {s} \cup (IF s # <<>> /\ s[Len(s)] = "\n" THEN {SubSeq(s, 1, Len(s) - 1)} ELSE {})

\* ^[a-zA-Z0-9 ]*$
is_alphanumeric_with_spaces(s) ==
  \E t \in DollarEnds(s) :
     \A i \in 1..Len(t) : t[i] \in Letters \cup Digits \cup {" "}

Schemes == { <<"h","t","t","p">>, <<"h","t","t","p","s">> }

ImageExtensions ==
  { <<"j","p","g">>, <<"j","p","e","g">>, <<"p","n","g">>, <<"g","i","f">> }

\* ^(http|https)://[^\s/$.?#].[^\s]*\.(jpg|jpeg|png|gif)$  with re.IGNORECASE:
\* scheme, "://", one character outside \s / $ . ? #, one character that is
\* not a newline, any run of non-whitespace, ".", extension
is_valid_image_url(url) ==
  \E t \in DollarEnds(url) : \E sch \in Schemes : \E ext \in ImageExtensions :
     LET pre == sch \o <<":","/","/">>
         suf == <<".">> \o ext
         low == LowerStr(t)
         mid == SubSeq(t, Len(pre) + 1, Len(t) - Len(suf))
     IN  /\ Len(t) >= Len(pre) + Len(suf) + 2
         /\ StartsWith(low, pre)
         /\ EndsWith(low, suf)
         /\ mid[1] \notin Whitespace \cup {"/", "$", ".", "?", "#"}
         /\ mid[2] # "\n"
         /\ \A i \in 3..Len(mid) : mid[i] \notin Whitespace

\* ------------------------------------------------------------------------
\* validate_csv: the outcome is "ok", the detail class of the HTTPException
\* (status 400) it raises, or the Python exception that escapes it
\* ------------------------------------------------------------------------
RowOutcome(row) ==
  IF Len(row) < 3 THEN "400:columns"
  ELSE IF Len(row) # 3 THEN "ValueError"   \* sno, product_name, image_urls = row
  ELSE IF ~isdigit(row[1]) THEN "400:sno"
  ELSE IF ~is_alphanumeric_with_spaces(row[2]) THEN "400:product_name"
  ELSE IF ~(\A i \in 1..Len(split(row[3])) : is_valid_image_url(strip(split(row[3])[i])))
       THEN "400:image_urls"
  ELSE "ok"

RECURSIVE RowsOutcome(_)
RowsOutcome(rows) ==
  IF rows = <<>> THEN "ok"
  ELSE IF RowOutcome(Head(rows)) # "ok" THEN RowOutcome(Head(rows))
  ELSE RowsOutcome(Tail(rows))

\* the header is compared as a set of column names, whatever their order
validate_csv_unordered_header(file) ==
  IF ~file.utf8 THEN "UnicodeDecodeError"
  ELSE IF Len(file.rows) <= 1 THEN "400:empty"
  ELSE IF {Head(file.rows)[i] : i \in 1..Len(Head(file.rows))}
            # {VALID_HEADERS[i] : i \in 1..Len(VALID_HEADERS)} THEN "400:headers"
  ELSE RowsOutcome(Tail(file.rows))

validate_csv(file) ==
  IF ~file.utf8 THEN "UnicodeDecodeError"
  ELSE IF Len(file.rows) <= 1 THEN "400:empty"
  ELSE IF Head(file.rows) # VALID_HEADERS THEN "400:headers"
  ELSE RowsOutcome(Tail(file.rows))

\* ------------------------------------------------------------------------
\* Uploaded files: content type, whether the bytes decode as UTF-8, and the
\* rows csv.reader yields
\* ------------------------------------------------------------------------
UrlA == <<"h","t","t","p",":","/","/","x",".","c","/","a",".","j","p","g">>

UrlB == <<"h","t","t","p","s",":","/","/","x",".","c","/","b",".","P","N","G">>

UrlC == <<"h","t","t","p",":","/","/","x",".","c","/","c",".","g","i","f">>

UrlTxt == <<"h","t","t","p",":","/","/","x",".","c","/","b",".","t","x","t">>

WidgetA == <<"W","i","d","g","e","t"," ","A">>

GoodRow == << <<"1">>, WidgetA, UrlA >>

\* "http://x.c/a.jpg, https://x.c/b.PNG" in one (quoted) field
TwoUrlRow == << <<"1","0">>, WidgetA, UrlA \o <<",", " ">> \o UrlB >>

GifRow == << <<"2">>, <<"B","2">>, UrlC >>

CsvFile(rows) == [utf8 |-> TRUE, rows |-> rows]

OneRowFile == CsvFile(<<VALID_HEADERS, GoodRow>>)

\* exactly MAX_FILE_SIZE bytes
TwoRowFile == CsvFile(<<VALID_HEADERS, TwoUrlRow, GifRow>>)

\* one byte more than MAX_FILE_SIZE
OversizeFile ==
  CsvFile(<<VALID_HEADERS, TwoUrlRow, << <<"2">>, <<"B","2","2">>, UrlC >> >>)

InvalidFiles ==
  { [utf8 |-> FALSE, rows |-> <<>>],
    CsvFile(<<>>),
    CsvFile(<<VALID_HEADERS>>),
    \* header row only, and not the configured header
    CsvFile(<< <<VALID_HEADERS[1], VALID_HEADERS[2]>> >>),
    \* the configured columns, reordered
    CsvFile(<< <<VALID_HEADERS[2], VALID_HEADERS[1], VALID_HEADERS[3]>>, GoodRow >>),
    CsvFile(<< Append(VALID_HEADERS, <<"x">>), GoodRow >>),
    CsvFile(<< VALID_HEADERS, << <<"1">>, WidgetA >> >>),
    CsvFile(<< VALID_HEADERS, <<>> >>),
    \* unquoted list of two URLs: four fields
    CsvFile(<< VALID_HEADERS, << <<"1">>, WidgetA, UrlA, UrlB >> >>),
    CsvFile(<< VALID_HEADERS, << <<"1","a">>, WidgetA, UrlA >> >>),
    CsvFile(<< VALID_HEADERS, << <<>>, WidgetA, UrlA >> >>),
    CsvFile(<< VALID_HEADERS, << <<"1">>, <<"W","-","1">>, UrlA >> >>),
    CsvFile(<< VALID_HEADERS, << <<"1">>, WidgetA, UrlA \o <<",">> \o UrlTxt >> >>),
    CsvFile(<< VALID_HEADERS, << <<"1">>, WidgetA, UrlA \o <<",">> >> >>),
    \* a valid row followed by an invalid one
    CsvFile(<< VALID_HEADERS, GoodRow, << <<"2">>, <<"B","_">>, UrlC >> >>) }

\* the uploads sent as text/csv
Files == {TwoRowFile, OversizeFile} \cup InvalidFiles

Inputs ==
  {[content_type |-> "text/csv", file |-> f] : f \in Files}
    \cup {[content_type |-> "application/json", file |-> OneRowFile]}

\* bytes of a field as csv writes it: quoted when it holds a comma
FieldBytes(f) == Len(f) + (IF \E i \in 1..Len(f) : f[i] = "," THEN 2 ELSE 0)

RECURSIVE FieldsBytes(_)
FieldsBytes(row) ==
  IF row = <<>> THEN 0 ELSE FieldBytes(Head(row)) + FieldsBytes(Tail(row))

\* the fields, the commas between them, the line end
RowBytes(row) == FieldsBytes(row) + (IF row = <<>> THEN 0 ELSE Len(row) - 1) + 1

RECURSIVE RowsBytes(_)
RowsBytes(rows) ==
  IF rows = <<>> THEN 0 ELSE RowBytes(Head(rows)) + RowsBytes(Tail(rows))

\* file.file._file.seek(0, 2): the length of the upload in bytes
ByteLen(file) == IF file.utf8 THEN RowsBytes(file.rows) ELSE 1

\* ------------------------------------------------------------------------
\* Status strings of the Item records
\* ------------------------------------------------------------------------
Pending == "Processing Pending"

Processing == "Processing in progress!"

Completed == "Processing completed successfully!"

\* f"Processing failed due to {str(e)}!"
Failed(reason) == "Processing failed due to " \o reason \o "!"

\* str(e) of the exceptions that reach the handler of process_file
DbError == "500: Error occurred while writing to DB"

S3ReadError == "An error occurred when calling the GetObject operation"

S3WriteError == "500: Error occurred while writing file to S3"

FetchError == "HTTPError"

DecodeError == "cannot identify image file"

ImageUploadError == "500: Error occurred while uploading image to S3"

StopIterationError == ""

IndexError == "list index out of range"

UnicodeError == "'utf-8' codec can't decode byte"

Reasons ==
  {DbError, S3ReadError, S3WriteError, FetchError, DecodeError,
   ImageUploadError, StopIterationError, IndexError, UnicodeError}

FailedStatuses == {Failed(r) : r \in Reasons}

\* ------------------------------------------------------------------------
\* State
\* ------------------------------------------------------------------------
Ids == 1..MaxUploads

NoRequestId == 0

VARIABLES
  requests,      \* the POST /upload-csv calls, in order of arrival
  uuids,         \* number of requestIds uuid4 has handed out
  table,         \* DynamoDB table: status of the Item, by requestId of the Items it holds
  csv_bucket,    \* AWS_BUCKET_NAME: the object "<requestId>.csv", by requestId of the keys it holds
  image_bucket,  \* AWS_IMAGE_BUCKET: the objects stored, by file key
  tasks,         \* process_file(requestId): position and local variables
  response,      \* the answer to the latest GET request
  calls          \* by requestId: the calls process_file has made to the stores,
                 \* to uuid4 and to the image hosts, with what they returned

vars == <<requests, uuids, table, csv_bucket, image_bucket, tasks, response, calls>>

\* pc "none": no task for this requestId; the other fields are the locals
\* of process_file (rest: the rows csv_reader has not yielded yet)
NoTask ==
  [pc |-> "none", new_csv |-> <<>>, rest |-> <<>>, row |-> <<>>,
   image_urls |-> <<>>, uploaded_urls |-> <<>>, e |-> ""]

NoResponse == [op |-> "none", known |-> FALSE, store_ok |-> TRUE, code |-> 0, body |-> ""]

Init ==
  /\ requests = <<>>
  /\ uuids = 0
  /\ table = [id \in {} |-> Pending]
  /\ csv_bucket = [id \in {} |-> CsvFile(<<>>)]
  /\ image_bucket = {}
  /\ tasks = [id \in Ids |-> NoTask]
  /\ response = NoResponse
  /\ calls = [id \in Ids |-> <<>>]

\* ------------------------------------------------------------------------
\* Store wrappers
\* ------------------------------------------------------------------------
\* put_item takes effect although the call raises
write_to_db_applied_on_error(t, requestId, status, ok) ==
  [k \in DOMAIN t \cup {requestId} |-> IF k = requestId THEN status ELSE t[k]]

\* write_to_db: put_item replaces the Item of the key; when put_item raises,
\* the table is as before and HTTPException(500) is raised
write_to_db(t, requestId, status, ok) ==
  IF ok THEN [k \in DOMAIN t \cup {requestId} |-> IF k = requestId THEN status ELSE t[k]]
  ELSE t

\* every upload goes to the object of one and the same key
upload_to_s3_one_key(b, requestId, file, ok) ==
  IF ok THEN [k \in DOMAIN b \cup {1} |-> IF k = 1 THEN file ELSE b[k]]
  ELSE b

\* upload_to_s3: upload_fileobj replaces the object under "<requestId>.csv";
\* when it raises, the bucket is as before and HTTPException(500) is raised
upload_to_s3(b, requestId, file, ok) ==
  IF ok THEN [k \in DOMAIN b \cup {requestId} |-> IF k = requestId THEN file ELSE b[k]]
  ELSE b

\* ------------------------------------------------------------------------
\* POST /upload-csv
\* ------------------------------------------------------------------------
\* the size of the upload is not checked
upload_csv_checks_no_size(in) ==
  IF in.content_type # "text/csv"
    THEN [code |-> 400, detail |-> "Only CSV files are allowed"]
  ELSE LET v == validate_csv(in.file) IN
    IF v = "ok" THEN [code |-> 0, detail |-> ""]
    ELSE IF v \in {"UnicodeDecodeError", "ValueError"}
      THEN [code |-> 500, detail |-> "CSV parsing failed with exception"]
    ELSE [code |-> 400, detail |-> v]

\* the checks made before anything is stored: code 0 when all pass
upload_csv_checks(in) ==
  IF in.content_type # "text/csv"
    THEN [code |-> 400, detail |-> "Only CSV files are allowed"]
  ELSE IF ByteLen(in.file) > MAX_FILE_SIZE
    THEN [code |-> 400, detail |-> "File size exceeds the 2 MB limit!"]
  ELSE LET v == validate_csv(in.file) IN
    IF v = "ok" THEN [code |-> 0, detail |-> ""]
    ELSE IF v \in {"UnicodeDecodeError", "ValueError"}
      THEN [code |-> 500, detail |-> "CSV parsing failed with exception"]  \* except Exception
    ELSE [code |-> 400, detail |-> v]                                      \* except HTTPException

\* the outcome of the checks for each upload of the model
ChecksOf == [in \in Inputs |-> upload_csv_checks(in)]

\* uuid4 hands out a requestId it has handed out before
UploadArrive_reuse_uuid ==
  /\ Len(requests) < MaxUploads
  /\ \E in \in Inputs :
       LET c == ChecksOf[in] IN
       IF c.code # 0
       THEN /\ requests' = Append(requests,
                 [input |-> in, pc |-> "done", requestId |-> NoRequestId,
                  code |-> c.code, detail |-> c.detail])
            /\ UNCHANGED uuids
       ELSE /\ requests' = Append(requests,
                 [input |-> in, pc |-> "upload_to_s3", requestId |-> 1,
                  code |-> 0, detail |-> ""])
            /\ uuids' = uuids + 1
  /\ UNCHANGED <<table, csv_bucket, image_bucket, tasks, response, calls>>

\* a request arrives; content type, size and validate_csv are checked; a
\* request that passes gets its requestId from uuid4
UploadArrive ==
  /\ Len(requests) < MaxUploads
  /\ \E in \in Inputs :
       LET c == ChecksOf[in] IN
       IF c.code # 0
       THEN /\ requests' = Append(requests,
                 [input |-> in, pc |-> "done", requestId |-> NoRequestId,
                  code |-> c.code, detail |-> c.detail])
            /\ UNCHANGED uuids
       ELSE /\ requests' = Append(requests,
                 [input |-> in, pc |-> "upload_to_s3", requestId |-> uuids + 1,
                  code |-> 0, detail |-> ""])
            /\ uuids' = uuids + 1
  /\ UNCHANGED <<table, csv_bucket, image_bucket, tasks, response, calls>>

\* the exception of upload_to_s3 is swallowed and the handler goes on
UploadStore_ignore_error(r) ==
  /\ r \in 1..Len(requests)
  /\ requests[r].pc = "upload_to_s3"
  /\ \E ok \in BOOLEAN :
       /\ csv_bucket' = upload_to_s3(csv_bucket, requests[r].requestId, requests[r].input.file, ok)
       /\ requests' = [requests EXCEPT ![r] = [@ EXCEPT !.pc = "write_to_db"]]
  /\ UNCHANGED <<uuids, table, image_bucket, tasks, response, calls>>

\* upload_to_s3(file, requestId)
UploadStore(r) ==
  /\ r \in 1..Len(requests)
  /\ requests[r].pc = "upload_to_s3"
  /\ \E ok \in BOOLEAN :
       /\ csv_bucket' = upload_to_s3(csv_bucket, requests[r].requestId, requests[r].input.file, ok)
       /\ requests' = [requests EXCEPT ![r] =
            IF ok THEN [@ EXCEPT !.pc = "write_to_db"]
            ELSE [@ EXCEPT !.pc = "done", !.code = 500, !.detail = S3WriteError]]
  /\ UNCHANGED <<uuids, table, image_bucket, tasks, response, calls>>

\* the exception of write_to_db is swallowed and the handler goes on
UploadWritePending_ignore_error(r) ==
  /\ r \in 1..Len(requests)
  /\ requests[r].pc = "write_to_db"
  /\ \E ok \in BOOLEAN :
       /\ table' = write_to_db(table, requests[r].requestId, Pending, ok)
       /\ requests' = [requests EXCEPT ![r] = [@ EXCEPT !.pc = "add_task"]]
  /\ UNCHANGED <<uuids, csv_bucket, image_bucket, tasks, response, calls>>

\* write_to_db(Item(requestId, "Processing Pending"))
UploadWritePending(r) ==
  /\ r \in 1..Len(requests)
  /\ requests[r].pc = "write_to_db"
  /\ \E ok \in BOOLEAN :
       /\ table' = write_to_db(table, requests[r].requestId, Pending, ok)
       /\ requests' = [requests EXCEPT ![r] =
            IF ok THEN [@ EXCEPT !.pc = "add_task"]
            ELSE [@ EXCEPT !.pc = "done", !.code = 500, !.detail = DbError]]
  /\ UNCHANGED <<uuids, csv_bucket, image_bucket, tasks, response, calls>>

\* background_tasks.add_task(process_file, requestId); return: the task
\* starts once the response is sent
UploadReturn(r) ==
  /\ r \in 1..Len(requests)
  /\ requests[r].pc = "add_task"
  /\ tasks' = [tasks EXCEPT ![requests[r].requestId] = [NoTask EXCEPT !.pc = "write_processing"]]
  /\ requests' = [requests EXCEPT ![r] =
       [@ EXCEPT !.pc = "done", !.code = 200, !.detail = "File uploaded successfully!"]]
  /\ UNCHANGED <<uuids, table, csv_bucket, image_bucket, response, calls>>

\* ------------------------------------------------------------------------
\* compress_image and upload_image_to_s3
\* ------------------------------------------------------------------------
JPEG == <<"J","P","E","G">>

PNG == <<"P","N","G">>

GIF == <<"G","I","F">>

\* Image.open(...).format of the bytes the host serves for url: here the
\* host serves what the extension of the URL says
ImageFormatAt(url) ==
  LET low == LowerStr(strip(url)) IN
  IF EndsWith(low, <<".","p","n","g">>) THEN PNG
  ELSE IF EndsWith(low, <<".","g","i","f">>) THEN GIF
  ELSE JPEG

\* the keyword arguments of image.save for the detected format
SaveOptions(format) ==
  IF format = JPEG THEN [format |-> JPEG, option |-> "quality", value |-> IMAGE_QUALITY]
  ELSE IF format = PNG
    THEN [format |-> PNG, option |-> "compress_level", value |-> IMAGE_QUALITY \div 10]
  ELSE [format |-> format, option |-> "none", value |-> 0]

DigitChar(n) == <<"0","1","2","3","4","5","6","7","8","9">>[n + 1]

\* str(uuid.uuid4()).replace("-", ""): a key no earlier call has returned,
\* named after the job and the number of images the job has stored
ImageUuid(bucket, requestId) ==
  <<"k", DigitChar(requestId),
    DigitChar(Cardinality({o \in bucket : o.key[2] = DigitChar(requestId)}) + 1)>>

\* f'{uuid}.{image_extension}'
ImageFileKey(uuid, format) == uuid \o <<".">> \o LowerStr(format)

\* f"https://{AWS_IMAGE_BUCKET}.s3.{AWS_REGION}.amazonaws.com/{file_key}"
ImageUrl(file_key) ==
  <<"h","t","t","p","s",":","/","/">> \o AWS_IMAGE_BUCKET \o <<".","s","3",".">>
    \o AWS_REGION \o <<".","a","m","a","z","o","n","a","w","s",".","c","o","m","/">>
    \o file_key

\* outcome of compress_image(url): "fetch" when requests.get or
\* raise_for_status raises, "decode" when Image.open raises, "upload" when
\* upload_fileobj raises, else "ok"
CompressOutcomes == {"ok", "fetch", "decode", "upload"}

compress_image(url, uuid, outcome) ==
  IF outcome = "fetch" THEN [raised |-> FetchError, objects |-> {}, url |-> <<>>]
  ELSE IF outcome = "decode" THEN [raised |-> DecodeError, objects |-> {}, url |-> <<>>]
  ELSE IF outcome = "upload" THEN [raised |-> ImageUploadError, objects |-> {}, url |-> <<>>]
  ELSE LET format == ImageFormatAt(url)
           file_key == ImageFileKey(uuid, format)
       IN [raised |-> "",
           objects |-> {[key |-> file_key, saved |-> SaveOptions(format)]},
           url |-> ImageUrl(file_key)]

\* ------------------------------------------------------------------------
\* csv.writer: every field of a row that is not a str is written as str(field)
\* ------------------------------------------------------------------------
StrField(s) == [type |-> "str", value |-> s]

ListField(l) == [type |-> "list", value |-> l]

\* repr of a str without quotes or escapes in it
PyReprStr(s) == <<"'">> \o s \o <<"'">>

\* str(list): "[" + ", ".join(repr(x) for x in list) + "]"
RECURSIVE PyJoinRepr(_)
PyJoinRepr(l) ==
  IF l = <<>> THEN <<>>
  ELSE IF Len(l) = 1 THEN PyReprStr(l[1])
  ELSE PyReprStr(l[1]) \o <<",", " ">> \o PyJoinRepr(Tail(l))

PyStrList(l) == <<"[">> \o PyJoinRepr(l) \o <<"]">>

WriteField(f) == IF f.type = "str" THEN f.value ELSE PyStrList(f.value)

\* csv_writer.writerows(new_csv), read back as rows of fields
writerows(new_csv) ==
  [i \in 1..Len(new_csv) |-> [j \in 1..Len(new_csv[i]) |-> WriteField(new_csv[i][j])]]

\* a row as csv_reader yields it: a list of str
ReadRow(row) == [j \in 1..Len(row) |-> StrField(row[j])]

OutputHeader ==
  <<"O","u","t","p","u","t"," ","I","m","a","g","e"," ","U","r","l","s">>

\* ------------------------------------------------------------------------
\* process_file(requestId)
\* ------------------------------------------------------------------------
\* one call that process_file makes outside itself: op is the function called,
\* row the number of the row at hand and url the argument for compress_image,
\* uuid what uuid4 returned to it, outcome "ok" or the exception raised
Call(op, row, url, uuid, outcome) ==
  [op |-> op, row |-> row, url |-> url, uuid |-> uuid, outcome |-> outcome]

OkOrError(ok) == IF ok THEN "ok" ELSE "error"

\* process_file(requestId) has made the call
Called(requestId, call) == calls' = [calls EXCEPT ![requestId] = Append(@, call)]

\* control reaches the except clause with exception e; the locals of the try
\* block are not used again
Raise(e) == [NoTask EXCEPT !.pc = "except", !.e = e]

\* the for statement takes the next row of csv_reader, or the loop ends
NextRow(t) ==
  IF t.rest = <<>> THEN [t EXCEPT !.pc = "upload_to_s3", !.row = <<>>,
                                 !.image_urls = <<>>, !.uploaded_urls = <<>>]
  ELSE IF Len(Head(t.rest)) < 3 THEN Raise(IndexError)     \* row[2]
  ELSE [t EXCEPT !.pc = "compress_image",
                 !.row = ReadRow(Head(t.rest)),
                 !.rest = Tail(t.rest),
                 !.image_urls = split(Head(t.rest)[3]),
                 !.uploaded_urls = <<>>]

\* headers = next(csv_reader); headers.append(...); new_csv = [[headers]]
InitialCsv(headers) == << <<ListField(Append(headers, OutputHeader))>> >>

\* the task starts on the body without writing the Processing status
ProcStart_no_write(id) ==
  /\ tasks[id].pc = "write_processing"
  /\ tasks' = [tasks EXCEPT ![id] = [@ EXCEPT !.pc = "read_from_s3"]]
  /\ UNCHANGED <<requests, uuids, table, csv_bucket, image_bucket, response, calls>>

\* write_to_db(Item(requestId, "Processing in progress!"))
ProcStart(id) ==
  /\ tasks[id].pc = "write_processing"
  /\ \E ok \in BOOLEAN :
       /\ table' = write_to_db(table, id, Processing, ok)
       /\ tasks' = [tasks EXCEPT ![id] =
            IF ok THEN [@ EXCEPT !.pc = "read_from_s3"] ELSE Raise(DbError)]
       /\ Called(id, Call("write_to_db", 0, <<>>, <<>>, OkOrError(ok)))
  /\ UNCHANGED <<requests, uuids, csv_bucket, image_bucket, response>>

\* read_from_s3, decode, csv.reader, the header row
ProcRead(id) ==
  /\ tasks[id].pc = "read_from_s3"
  /\ \E ok \in BOOLEAN :
       /\ tasks' = [tasks EXCEPT ![id] =
            IF ~ok \/ id \notin DOMAIN csv_bucket THEN Raise(S3ReadError)
            ELSE IF ~csv_bucket[id].utf8 THEN Raise(UnicodeError)
            ELSE IF csv_bucket[id].rows = <<>> THEN Raise(StopIterationError)
            ELSE NextRow([@ EXCEPT !.new_csv = InitialCsv(Head(csv_bucket[id].rows)),
                                   !.rest = Tail(csv_bucket[id].rows)])]
       /\ Called(id, Call("read_from_s3", 0, <<>>, <<>>, OkOrError(ok)))
  /\ UNCHANGED <<requests, uuids, table, csv_bucket, image_bucket, response>>

\* row.extend(uploaded_urls): every uploaded URL becomes a column of its own
ProcCompress_extend(id) ==
  /\ tasks[id].pc = "compress_image"
  /\ \E outcome \in CompressOutcomes :
       LET t == tasks[id]
           url == t.image_urls[Len(t.uploaded_urls) + 1]
           c == compress_image(url, ImageUuid(image_bucket, id), outcome)
           urls == Append(t.uploaded_urls, c.url)
       IN /\ image_bucket' = image_bucket \cup c.objects
          /\ Called(id, Call("compress_image", Len(t.new_csv) + 1, url,
                             ImageUuid(image_bucket, id), outcome))
          /\ tasks' = [tasks EXCEPT ![id] =
               IF c.raised # "" THEN Raise(c.raised)
               ELSE IF Len(urls) < Len(t.image_urls) THEN [t EXCEPT !.uploaded_urls = urls]
               ELSE NextRow([t EXCEPT !.new_csv =
                               Append(t.new_csv,
                                      t.row \o [i \in 1..Len(urls) |-> StrField(urls[i])])])]
  /\ UNCHANGED <<requests, uuids, table, csv_bucket, response>>

\* every uploaded URL is put in front of the earlier ones
ProcCompress_prepend(id) ==
  /\ tasks[id].pc = "compress_image"
  /\ \E outcome \in CompressOutcomes :
       LET t == tasks[id]
           url == t.image_urls[Len(t.uploaded_urls) + 1]
           c == compress_image(url, ImageUuid(image_bucket, id), outcome)
           urls == <<c.url>> \o t.uploaded_urls
       IN /\ image_bucket' = image_bucket \cup c.objects
          /\ Called(id, Call("compress_image", Len(t.new_csv) + 1, url,
                             ImageUuid(image_bucket, id), outcome))
          /\ tasks' = [tasks EXCEPT ![id] =
               IF c.raised # "" THEN Raise(c.raised)
               ELSE IF Len(urls) < Len(t.image_urls) THEN [t EXCEPT !.uploaded_urls = urls]
               ELSE NextRow([t EXCEPT !.new_csv =
                               Append(t.new_csv, Append(t.row, ListField(urls)))])]
  /\ UNCHANGED <<requests, uuids, table, csv_bucket, response>>

\* a URL whose fetch raised is tried again
ProcCompress_retry(id) ==
  /\ tasks[id].pc = "compress_image"
  /\ \E outcome \in CompressOutcomes :
       LET t == tasks[id]
           url == t.image_urls[Len(t.uploaded_urls) + 1]
           c == compress_image(url, ImageUuid(image_bucket, id), outcome)
           urls == Append(t.uploaded_urls, c.url)
       IN /\ image_bucket' = image_bucket \cup c.objects
          /\ Called(id, Call("compress_image", Len(t.new_csv) + 1, url,
                             ImageUuid(image_bucket, id), outcome))
          /\ tasks' = [tasks EXCEPT ![id] =
               IF c.raised = FetchError THEN t
               ELSE IF c.raised # "" THEN Raise(c.raised)
               ELSE IF Len(urls) < Len(t.image_urls) THEN [t EXCEPT !.uploaded_urls = urls]
               ELSE NextRow([t EXCEPT !.new_csv =
                               Append(t.new_csv, Append(t.row, ListField(urls)))])]
  /\ UNCHANGED <<requests, uuids, table, csv_bucket, response>>

\* one compress_image(url) of the list comprehension; after the last URL of
\* the row: row.append(uploaded_urls); new_csv.append(row)
ProcCompress(id) ==
  /\ tasks[id].pc = "compress_image"
  /\ \E outcome \in CompressOutcomes :
       LET t == tasks[id]
           url == t.image_urls[Len(t.uploaded_urls) + 1]
           c == compress_image(url, ImageUuid(image_bucket, id), outcome)
           urls == Append(t.uploaded_urls, c.url)
       IN /\ image_bucket' = image_bucket \cup c.objects
          /\ Called(id, Call("compress_image", Len(t.new_csv) + 1, url,
                             ImageUuid(image_bucket, id), outcome))
          /\ tasks' = [tasks EXCEPT ![id] =
               IF c.raised # "" THEN Raise(c.raised)
               ELSE IF Len(urls) < Len(t.image_urls) THEN [t EXCEPT !.uploaded_urls = urls]
               ELSE NextRow([t EXCEPT !.new_csv =
                               Append(t.new_csv, Append(t.row, ListField(urls)))])]
  /\ UNCHANGED <<requests, uuids, table, csv_bucket, response>>

\* the exception of upload_to_s3 is swallowed and the run goes on
ProcUpload_ignore_error(id) ==
  /\ tasks[id].pc = "upload_to_s3"
  /\ \E ok \in BOOLEAN :
       /\ csv_bucket' = upload_to_s3(csv_bucket, id, CsvFile(writerows(tasks[id].new_csv)), ok)
       /\ Called(id, Call("upload_to_s3", 0, <<>>, <<>>, OkOrError(ok)))
       /\ tasks' = [tasks EXCEPT ![id] = [NoTask EXCEPT !.pc = "write_completed"]]
  /\ UNCHANGED <<requests, uuids, table, image_bucket, response>>

\* csv_writer.writerows(new_csv); upload_to_s3(csv_buffer, requestId, replace=True)
ProcUpload(id) ==
  /\ tasks[id].pc = "upload_to_s3"
  /\ \E ok \in BOOLEAN :
       /\ csv_bucket' = upload_to_s3(csv_bucket, id, CsvFile(writerows(tasks[id].new_csv)), ok)
       /\ Called(id, Call("upload_to_s3", 0, <<>>, <<>>, OkOrError(ok)))
       /\ tasks' = [tasks EXCEPT ![id] =
            IF ok THEN [NoTask EXCEPT !.pc = "write_completed"] ELSE Raise(S3WriteError)]
  /\ UNCHANGED <<requests, uuids, table, image_bucket, response>>

\* write_to_db(Item(requestId, "Processing completed successfully!"))
ProcComplete(id) ==
  /\ tasks[id].pc = "write_completed"
  /\ \E ok \in BOOLEAN :
       /\ table' = write_to_db(table, id, Completed, ok)
       /\ Called(id, Call("write_to_db", 0, <<>>, <<>>, OkOrError(ok)))
       /\ tasks' = [tasks EXCEPT ![id] =
            IF ok THEN [NoTask EXCEPT !.pc = "returned"] ELSE Raise(DbError)]
  /\ UNCHANGED <<requests, uuids, csv_bucket, image_bucket, response>>

\* after recording the failure the run goes on to upload what it has
ProcExcept_goes_on(id) ==
  /\ tasks[id].pc = "except"
  /\ \E ok \in BOOLEAN :
       /\ table' = write_to_db(table, id, Failed(tasks[id].e), ok)
       /\ Called(id, Call("write_to_db", 0, <<>>, <<>>, OkOrError(ok)))
       /\ tasks' = [tasks EXCEPT ![id] =
            [NoTask EXCEPT !.pc = IF ok THEN "upload_to_s3" ELSE "raised"]]
  /\ UNCHANGED <<requests, uuids, csv_bucket, image_bucket, response>>

\* except Exception as e: write_to_db(Item(requestId, "Processing failed due
\* to ...")); when this write raises, the exception leaves process_file
ProcExcept(id) ==
  /\ tasks[id].pc = "except"
  /\ \E ok \in BOOLEAN :
       /\ table' = write_to_db(table, id, Failed(tasks[id].e), ok)
       /\ Called(id, Call("write_to_db", 0, <<>>, <<>>, OkOrError(ok)))
       /\ tasks' = [tasks EXCEPT ![id] =
            [NoTask EXCEPT !.pc = IF ok THEN "returned" ELSE "raised"]]
  /\ UNCHANGED <<requests, uuids, csv_bucket, image_bucket, response>>

\* ------------------------------------------------------------------------
\* GET /status/{requestId} and GET /get-csv/{requestId}
\* ------------------------------------------------------------------------
\* read_from_db: the HTTPException(404) is raised inside the try block, whose
\* except Exception clause turns every exception into HTTPException(500)
read_from_db(t, requestId, ok) ==
  LET raised_in_try ==
        IF ~ok THEN "ClientError"
        ELSE IF requestId \in DOMAIN t THEN ""
        ELSE "404: requestId not found!"
  IN IF raised_in_try # ""
     THEN [code |-> 500, body |-> "Exception occurred: " \o raised_in_try]
     ELSE [code |-> 200, body |-> t[requestId]]

GetStatus ==
  /\ \E id \in Ids : \E ok \in BOOLEAN :
       LET r == read_from_db(table, id, ok) IN
       response' = [op |-> "status", known |-> id \in DOMAIN table, store_ok |-> ok,
                    code |-> r.code, body |-> r.body]
  /\ UNCHANGED <<requests, uuids, table, csv_bucket, image_bucket, tasks, calls>>

\* get_csv: NoSuchKey gives 404, any other exception 500
GetCsv ==
  /\ \E id \in Ids : \E ok \in BOOLEAN :
       response' = [op |-> "get-csv", known |-> id \in DOMAIN csv_bucket, store_ok |-> ok,
                    code |-> IF ~ok THEN 500
                             ELSE IF id \in DOMAIN csv_bucket THEN 200 ELSE 404,
                    body |-> IF ok /\ id \in DOMAIN csv_bucket
                             THEN csv_bucket[id] ELSE CsvFile(<<>>)]
  /\ UNCHANGED <<requests, uuids, table, csv_bucket, image_bucket, tasks, calls>>

\* ------------------------------------------------------------------------
\* Specifications
\* ------------------------------------------------------------------------
Next ==
  \/ UploadArrive
  \/ \E r \in 1..MaxUploads : UploadStore(r)
  \/ \E r \in 1..MaxUploads : UploadWritePending(r)
  \/ \E r \in 1..MaxUploads : UploadReturn(r)
  \/ \E id \in Ids : ProcStart(id)
  \/ \E id \in Ids : ProcRead(id)
  \/ \E id \in Ids : ProcCompress(id)
  \/ \E id \in Ids : ProcUpload(id)
  \/ \E id \in Ids : ProcComplete(id)
  \/ \E id \in Ids : ProcExcept(id)

Spec == Init /\ [][Next]_vars

\* the service together with clients polling it
NextQuery == Next \/ GetStatus \/ GetCsv

SpecQuery == Init /\ [][NextQuery]_vars

\* ------------------------------------------------------------------------
\* Properties
\* ------------------------------------------------------------------------
Terminal(status) == status = Completed \/ status \in FailedStatuses

\* the upload request that was given requestId id
Owner(id) == CHOOSE r \in 1..Len(requests) : requests[r].requestId = id

HasOwner(id) == \E r \in 1..Len(requests) : requests[r].requestId = id

\* the document the owner of id uploaded
Original(id) == requests[Owner(id)].input.file

Running(id) == tasks[id].pc \notin {"none", "returned", "raised"}

\* C1: once the status record of a job is Completed or Failed, no step of
\* upload_csv or process_file, of this job or another, changes it.
C1_TerminalStatusNeverChanges ==
  [][\A id \in Ids :
       (id \in DOMAIN table /\ Terminal(table[id]))
         => (id \in DOMAIN table' /\ table'[id] = table[id])]_vars

\* one job has a terminal status while the task of another job is running
C1_Witness ==
  \E a, b \in Ids :
     /\ a # b
     /\ a \in DOMAIN table /\ Terminal(table[a]) /\ tasks[a].pc = "returned"
     /\ Running(b)

\* C2 as claimed: the status record goes none -> Pending -> Processing ->
\* (Completed | Failed), Completed and Failed being written only over
\* Processing.
C2_OnlyProcessingPrecedesTerminal ==
  [][\A id \in Ids :
       (id \in DOMAIN table' /\ (id \notin DOMAIN table \/ table'[id] # table[id]))
         => \/ id \notin DOMAIN table /\ table'[id] = Pending
            \/ id \in DOMAIN table /\ table[id] = Pending /\ table'[id] = Processing
            \/ id \in DOMAIN table /\ table[id] = Processing /\ Terminal(table'[id])]_vars

\* C2 amended: as above, and Failed is also written over Pending, by the
\* except clause of a run whose Processing write raised.
C2_StatusSequence ==
  [][\A id \in Ids :
       (id \in DOMAIN table' /\ (id \notin DOMAIN table \/ table'[id] # table[id]))
         => \/ /\ id \notin DOMAIN table
               /\ table'[id] = Pending
               /\ tasks[id].pc = "none"
            \/ id \in DOMAIN table /\ table[id] = Pending /\ table'[id] = Processing
            \/ id \in DOMAIN table /\ table[id] = Processing /\ Terminal(table'[id])
            \/ /\ id \in DOMAIN table /\ table[id] = Pending
               /\ tasks[id].pc = "except" /\ tasks[id].e = DbError
               /\ table'[id] = Failed(DbError)]_vars

\* a job has reached each of the two ends: one Completed over Processing, one
\* Failed over Pending after its Processing write raised
C2_Witness ==
  \E a, b \in Ids :
     /\ a \in DOMAIN table /\ table[a] = Completed
     /\ b \in DOMAIN table /\ table[b] = Failed(DbError) /\ csv_bucket[b] = Original(b)
     /\ tasks[b].pc = "returned"

\* C3: whenever the status of a job is Failed, the document under
\* "<requestId>.csv" is the original upload.
C3_FailedKeepsOriginal ==
  \A id \in DOMAIN table :
     table[id] \in FailedStatuses => csv_bucket[id] = Original(id)

\* C4: every error of a process_file run is caught and ends in a persisted
\* Failed status; no exception leaves process_file.
C4_NoExceptionEscapes ==
  \A id \in Ids :
     /\ tasks[id].pc # "raised"
     /\ tasks[id].pc = "returned" => (id \in DOMAIN table /\ Terminal(table[id]))

\* C5: GET /status of a requestId without a record answers 404 when the
\* store answers; 500 is answered only when the lookup itself fails.
C5_UnknownIdGives404 ==
  response.op = "status" =>
     /\ (~response.known /\ response.store_ok) => response.code = 404
     /\ response.code = 500 => ~response.store_ok

\* what upload_csv requires of an upload before it stores anything
WellFormedRow(row) ==
  /\ Len(row) = 3
  /\ isdigit(row[1])
  /\ is_alphanumeric_with_spaces(row[2])
  /\ \A u \in {split(row[3])[i] : i \in 1..Len(split(row[3]))} : is_valid_image_url(strip(u))

Acceptable(in) ==
  /\ in.content_type = "text/csv"
  /\ ByteLen(in.file) <= MAX_FILE_SIZE
  /\ in.file.utf8
  /\ Len(in.file.rows) >= 2
  /\ in.file.rows[1] = VALID_HEADERS
  /\ \A i \in 2..Len(in.file.rows) : WellFormedRow(in.file.rows[i])

AcceptableInputs == {in \in Inputs : Acceptable(in)}

\* C6: an upload that fails the content-type check, the size check or
\* validate_csv gets no requestId, and every stored document, status record
\* and scheduled task belongs to an upload that passed all three.
C6_OnlyValidUploadsStored ==
  /\ \A r \in 1..Len(requests) :
        requests[r].input \notin AcceptableInputs
          => requests[r].requestId = NoRequestId /\ requests[r].pc = "done"
  /\ \A id \in Ids :
        (id \in DOMAIN csv_bucket \/ id \in DOMAIN table \/ tasks[id].pc # "none")
          => HasOwner(id) /\ requests[Owner(id)].input \in AcceptableInputs
  /\ Cardinality(DOMAIN csv_bucket \cup DOMAIN table)
        <= Cardinality({r \in 1..Len(requests) : requests[r].input \in AcceptableInputs})

\* an upload was rejected and another one was stored and scheduled
C6_Witness ==
  \E r, q \in 1..Len(requests) :
     /\ requests[r].input \notin AcceptableInputs /\ requests[r].code \in {400, 500}
     /\ requests[q].code = 200
     /\ requests[q].requestId \in DOMAIN csv_bucket \cap DOMAIN table
     /\ tasks[requests[q].requestId].pc # "none"

\* C7: an upload that was answered with a requestId has its document and its
\* status record stored; a task exists only for an answered upload, and when
\* it takes its first step the record is Pending and the document is the
\* original.
C7_PersistedBeforeResponse ==
  /\ \A r \in 1..Len(requests) :
        requests[r].code = 200
          => /\ requests[r].requestId \in DOMAIN csv_bucket
             /\ requests[r].requestId \in DOMAIN table
  /\ \A id \in Ids :
        tasks[id].pc # "none" => HasOwner(id) /\ requests[Owner(id)].code = 200
  /\ \A id \in Ids :
        tasks[id].pc = "write_processing"
          => /\ id \in DOMAIN table /\ table[id] = Pending
             /\ id \in DOMAIN csv_bucket /\ csv_bucket[id] = Original(id)

\* an upload has been answered and its task has not taken a step, while
\* another upload ended on a storage failure
C7_Witness ==
  \E r, q \in 1..Len(requests) :
     /\ requests[r].code = 200
     /\ tasks[requests[r].requestId].pc = "write_processing"
     /\ requests[q].code = 500 /\ requests[q].requestId # NoRequestId

\* the upload passes the checks made before validate_csv and decodes
ReachesHeaderCheck(in) ==
  /\ in.content_type = "text/csv"
  /\ ByteLen(in.file) <= MAX_FILE_SIZE
  /\ in.file.utf8

HeaderCheckedInputs == {in \in Inputs : ReachesHeaderCheck(in)}

\* C8 as claimed: a CSV with a header row that differs from VALID_HEADERS,
\* data rows or not, is rejected with the header-mismatch error and gets no
\* job.
C8_AnyWrongHeaderIsHeaderMismatch ==
  \A r \in 1..Len(requests) :
     LET in == requests[r].input IN
     (in \in HeaderCheckedInputs /\ Len(in.file.rows) >= 1 /\ in.file.rows[1] # VALID_HEADERS)
       => /\ requests[r].code = 400 /\ requests[r].detail = "400:headers"
          /\ requests[r].requestId = NoRequestId

\* C8 amended: a CSV with at least one row after the header row and a header
\* row that differs from VALID_HEADERS is rejected with the header-mismatch
\* error; one with at most one row is rejected as empty, whatever its header;
\* neither gets a job, and every job record belongs to an upload with the
\* configured header.
C8_WrongHeaderRejected ==
  /\ \A r \in 1..Len(requests) :
        LET in == requests[r].input IN
        in \in HeaderCheckedInputs =>
          /\ (Len(in.file.rows) >= 2 /\ in.file.rows[1] # VALID_HEADERS)
               => /\ requests[r].code = 400 /\ requests[r].detail = "400:headers"
                  /\ requests[r].requestId = NoRequestId
          /\ Len(in.file.rows) <= 1
               => /\ requests[r].code = 400 /\ requests[r].detail = "400:empty"
                  /\ requests[r].requestId = NoRequestId
  /\ \A id \in DOMAIN table : HasOwner(id) /\ Original(id).rows[1] = VALID_HEADERS

\* an upload with the columns reordered was rejected for its header, and a
\* header-only upload with a wrong header was rejected as empty
C8_Witness ==
  \E r, q \in 1..Len(requests) :
     /\ requests[r].input.file.rows =
          << <<VALID_HEADERS[2], VALID_HEADERS[1], VALID_HEADERS[3]>>, GoodRow >>
     /\ requests[r].detail = "400:headers"
     /\ requests[q].input.file.rows = << <<VALID_HEADERS[1], VALID_HEADERS[2]>> >>
     /\ requests[q].detail = "400:empty"

\* C9: an upload the Validator rejects is answered 400, and upload_csv
\* answers 500 only after a Blob Store or Job Store operation failed.
C9_ValidatorFailureIs400 ==
  \A r \in 1..Len(requests) :
     LET in == requests[r].input IN
     requests[r].pc = "done" =>
       /\ in \in (HeaderCheckedInputs \ AcceptableInputs) => requests[r].code = 400
       /\ requests[r].code = 500 => requests[r].detail \in {S3WriteError, DbError}

\* C10: when a job is Completed, the header row of the stored document is the
\* input header row followed by the one column "Output Image Urls".
C10_HeaderGainsOneColumn ==
  \A id \in DOMAIN table :
     table[id] = Completed
       => /\ Len(csv_bucket[id].rows[1]) = Len(Original(id).rows[1]) + 1
          /\ csv_bucket[id].rows[1] = Append(Original(id).rows[1], OutputHeader)


\* C11: when a job is Completed, the stored document has the data rows of the
\* input, as many and in the same order, each with the columns of the input
\* row unchanged and followed by exactly one more column.
C11_DataRowsGainOneColumn ==
  \A id \in DOMAIN table :
     table[id] = Completed
       => LET in == Original(id).rows
              out == csv_bucket[id].rows
          IN /\ Len(out) = Len(in)
             /\ \A i \in 2..Len(in) :
                   /\ Len(out[i]) = Len(in[i]) + 1
                   /\ SubSeq(out[i], 1, Len(in[i])) = in[i]

\* a job is Completed whose input has two data rows, one of them with two URLs
C11_Witness ==
  \E id \in DOMAIN table :
     /\ table[id] = Completed
     /\ Len(Original(id).rows) = 3
     /\ Len(split(Original(id).rows[2][3])) = 2
     /\ csv_bucket[id] # Original(id)


\* the last column of a written row is the list of N URLs, the k-th being the
\* URL of a stored image that was saved as the format served at the k-th
\* input URL requires, no stored image being used twice
IsOutputOf(column, image_urls) ==
  \E objs \in [1..Len(image_urls) -> image_bucket] :
     /\ column = PyStrList([k \in 1..Len(image_urls) |-> ImageUrl(objs[k].key)])
     /\ \A k \in 1..Len(image_urls) :
           objs[k].saved = SaveOptions(ImageFormatAt(image_urls[k]))
     /\ \A k, l \in 1..Len(image_urls) : objs[k] = objs[l] => k = l

\* C12: when a job is Completed, the output column of every data row lists
\* exactly as many URLs as the row's image_urls field has entries between
\* commas, the k-th being the stored URL of the transform of the k-th entry.
C12_OutputUrlsOneToOneInOrder ==
  \A id \in DOMAIN table :
     table[id] = Completed
       => LET in == Original(id).rows
              out == csv_bucket[id].rows
          IN /\ Len(out) = Len(in)
             /\ \A i \in 2..Len(in) :
                   /\ Len(out[i]) = 4
                   /\ IsOutputOf(out[i][4], split(in[i][3]))

\* a job is Completed whose first data row has two URLs of different formats
C12_Witness ==
  \E id \in DOMAIN table :
     /\ table[id] = Completed
     /\ Len(split(Original(id).rows[2][3])) = 2
     /\ ImageFormatAt(split(Original(id).rows[2][3])[1])
          # ImageFormatAt(split(Original(id).rows[2][3])[2])
     /\ Len(csv_bucket[id].rows[2]) = 4


\* C13: once the status record of a job is Completed or Failed, no step
\* writes the document under "<requestId>.csv" again, and the run of the job
\* has returned.
C13_TerminalDocumentNeverWritten ==
  [][\A id \in Ids :
       (id \in DOMAIN table /\ Terminal(table[id]))
         => /\ id \in DOMAIN csv_bucket /\ id \in DOMAIN csv_bucket'
            /\ csv_bucket'[id] = csv_bucket[id]
            /\ tasks'[id].pc = "returned"]_vars

\* a job has ended Failed with its original document, and the run of another
\* job is about to upload its result document
C13_Witness ==
  \E a, b \in Ids :
     /\ a # b
     /\ a \in DOMAIN table /\ table[a] \in FailedStatuses
     /\ csv_bucket[a] = Original(a)
     /\ tasks[b].pc = "upload_to_s3"


\* doc is a result document of process_file for the upload orig: not the
\* upload itself, and every data row of it is the input row followed by its
\* output column
IsEnriched(doc, orig) ==
  /\ doc # orig
  /\ doc.utf8
  /\ Len(doc.rows) = Len(orig.rows)
  /\ \A i \in 2..Len(orig.rows) :
        /\ Len(doc.rows[i]) = Len(orig.rows[i]) + 1
        /\ SubSeq(doc.rows[i], 1, Len(orig.rows[i])) = orig.rows[i]
        /\ IsOutputOf(doc.rows[i][Len(doc.rows[i])], split(orig.rows[i][3]))

\* C14: a job whose status is Completed has the enriched document under
\* "<requestId>.csv", and a job whose status is Pending has the original
\* upload there.
C14_DocumentMatchesStatus ==
  \A id \in DOMAIN table :
     /\ id \in DOMAIN csv_bucket
     /\ table[id] = Completed => IsEnriched(csv_bucket[id], Original(id))
     /\ table[id] = Pending => csv_bucket[id] = Original(id)

\* one job is Completed, and another is still Pending although its run has
\* started and ended (its status writes raised)
C14_Witness ==
  \E a, b \in DOMAIN table :
     /\ table[a] = Completed /\ csv_bucket[a] # Original(a)
     /\ table[b] = Pending /\ tasks[b].pc = "raised"


\* C19: every requestId that has a record in the table has a document under
\* "<requestId>.csv" in the bucket, so get_csv finds the object of every job
\* that get_status knows.
C19_RecordHasDocument ==
  \A id \in Ids : id \in DOMAIN table => id \in DOMAIN csv_bucket

\* one job has its record and its document, and another upload ended with
\* 500 because upload_to_s3 raised: it has neither
C19_Witness ==
  /\ \E id \in DOMAIN table : id \in DOMAIN csv_bucket
  /\ \E r \in 1..Len(requests) :
        /\ requests[r].code = 500 /\ requests[r].detail = S3WriteError
        /\ requests[r].requestId \notin DOMAIN csv_bucket
        /\ requests[r].requestId \notin DOMAIN table


\* the upload_csv calls that hold requestId
UploadsOf(id) == {r \in 1..Len(requests) : requests[r].requestId = id}

\* the calls of write_to_db for requestId that may run next: that of an
\* upload_csv call, and those of the process_file run
WritersOf(id) ==
  {<<"upload_csv", r>> : r \in {u \in UploadsOf(id) : requests[u].pc = "write_to_db"}}
    \cup {<<"process_file", x>> :
            x \in {y \in {id} : tasks[y].pc \in {"write_processing", "write_completed", "except"}}}

\* a process_file run for id exists only after the upload_csv call of id has
\* written Pending and returned
RunAfterPending(id) ==
  tasks[id].pc # "none"
    => /\ id \in DOMAIN table
       /\ \A r \in UploadsOf(id) : requests[r].pc = "done" /\ requests[r].code = 200

\* a step that changes the record of id is the Pending write of its upload_csv
\* call, which creates the record, or a write of its process_file run, which
\* replaces it; and a run that exists is not scheduled again
RecordWrittenByOwner(id) ==
  /\ (id \in DOMAIN table' /\ id \notin DOMAIN table)
       => /\ table'[id] = Pending
          /\ \E r \in UploadsOf(id) :
                requests[r].pc = "write_to_db" /\ requests'[r].pc = "add_task"
  /\ (id \in DOMAIN table /\ table'[id] # table[id])
       => /\ tasks[id].pc \in {"write_processing", "write_completed", "except"}
          /\ tasks'[id].pc # tasks[id].pc
  /\ (tasks[id].pc # "none" /\ tasks'[id] # tasks[id])
       => tasks'[id].pc \notin {"none", "write_processing"}

\* C17: the record of a job is written once by upload_csv and afterwards only
\* by the one process_file run of the job, which exists only after the Pending
\* write; at no time can two writes to the same record run next.
C17_NoTwoWritersPerJob ==
  /\ [](\A id \in Ids :
          /\ Cardinality(UploadsOf(id)) <= 1
          /\ Cardinality(WritersOf(id)) <= 1
          /\ RunAfterPending(id))
  /\ [][\A id \in Ids : RecordWrittenByOwner(id)]_vars

\* two jobs at once: the run of one is about to write while the upload of the
\* other is about to write Pending
C17_Witness ==
  \E a, b \in Ids :
     /\ a # b
     /\ WritersOf(a) = {<<"process_file", a>>} /\ table[a] = Processing
     /\ \E r \in UploadsOf(b) : WritersOf(b) = {<<"upload_csv", r>>}


\* the URLs of the data rows, row by row and within a row in the order of the
\* image_urls column, each with the number of its row; n is the number of the
\* first of rows
RECURSIVE UrlsInOrder(_, _)
UrlsInOrder(rows, n) ==
  IF rows = <<>> THEN <<>>
  ELSE [k \in 1..Len(split(rows[1][3])) |-> [row |-> n, url |-> split(rows[1][3])[k]]]
         \o UrlsInOrder(Tail(rows), n + 1)

\* the same for each upload of the model that passes the checks
UrlsInOrderOf ==
  [f \in {in.file : in \in AcceptableInputs} |-> UrlsInOrder(Tail(f.rows), 2)]

CompressCalls(id) == SelectSeq(calls[id], LAMBDA c : c.op = "compress_image")

\* C15: the compress_image calls of one process_file run are the URLs of the
\* upload in row order and in in-row order, each passed at most once, up to
\* some point; after a compress_image call that raised the run makes no
\* further compress_image call and no upload of a result document.
C15_InOrderNoRetry ==
  \A id \in Ids :
     calls[id] # <<>>
       => LET log == calls[id]
              made == CompressCalls(id)
              urls == UrlsInOrderOf[Original(id)]
          IN /\ Len(made) <= Len(urls)
             /\ \A k \in 1..Len(made) :
                   made[k].row = urls[k].row /\ made[k].url = urls[k].url
             /\ \A i, j \in 1..Len(log) :
                   (i < j /\ log[i].op = "compress_image" /\ log[i].outcome # "ok")
                     => log[j].op \notin {"compress_image", "upload_to_s3"}
             /\ \A j \in 1..Len(log) :
                   log[j].op = "upload_to_s3" => Len(made) = Len(urls)

\* a run whose third compress_image call, the first of the second data row,
\* raised after two that returned, and which then recorded the failure
C15_Witness ==
  \E id \in Ids :
     /\ Len(CompressCalls(id)) = 3
     /\ CompressCalls(id)[1].row = 2 /\ CompressCalls(id)[2].row = 2
     /\ CompressCalls(id)[3].row = 3 /\ CompressCalls(id)[3].outcome = "decode"
     /\ calls[id][Len(calls[id])].op = "write_to_db"
     /\ tasks[id].pc = "returned" /\ table[id] = Failed(DecodeError)


\* ------------------------------------------------------------------------
\* process_file as one sequential run
\* ------------------------------------------------------------------------
\* the except clause: resp is what remains of the responses, status and doc
\* are the record and the document as the try block left them
except_clause(e, status, doc, resp) ==
  [status |-> IF resp[1].outcome = "ok" THEN Failed(e) ELSE status, doc |-> doc]

\* the for loop over the rows of csv_reader, taking one response for every
\* compress_image call: the exception raised, if any, new_csv, and the
\* responses not yet taken
RECURSIVE for_rows(_, _, _)
for_rows(rows, resp, new_csv) ==
  IF rows = <<>> THEN [raised |-> "", new_csv |-> new_csv, resp |-> resp]
  ELSE IF Len(Head(rows)) < 3
    THEN [raised |-> IndexError, new_csv |-> new_csv, resp |-> resp]
  ELSE LET row == Head(rows)
           image_urls == split(row[3])
           bad == {k \in 1..Len(image_urls) : resp[k].outcome # "ok"}
           first == CHOOSE k \in bad : \A l \in bad : k <= l
           uploaded_urls ==
             [k \in 1..Len(image_urls) |->
                compress_image(image_urls[k], resp[k].uuid, "ok").url]
       IN IF \E k \in 1..Len(image_urls) :
                  resp[k].outcome # "ok" /\ \A l \in 1..(k - 1) : resp[l].outcome = "ok"
          THEN [raised |-> compress_image(image_urls[first], resp[first].uuid,
                                          resp[first].outcome).raised,
                new_csv |-> new_csv,
                resp |-> SubSeq(resp, first + 1, Len(resp))]
          ELSE for_rows(Tail(rows), SubSeq(resp, Len(image_urls) + 1, Len(resp)),
                        Append(new_csv, Append(ReadRow(row), ListField(uploaded_urls))))

\* process_file(requestId) run from its first line to its last on the upload
\* file, with resp the responses of the calls it makes in the order it makes
\* them: the status in the record and the document when it ends
process_file(file, resp) ==
  IF resp[1].outcome # "ok" THEN except_clause(DbError, Pending, file, Tail(resp))
  ELSE IF resp[2].outcome # "ok"
    THEN except_clause(S3ReadError, Processing, file, SubSeq(resp, 3, Len(resp)))
  ELSE IF ~file.utf8
    THEN except_clause(UnicodeError, Processing, file, SubSeq(resp, 3, Len(resp)))
  ELSE IF file.rows = <<>>
    THEN except_clause(StopIterationError, Processing, file, SubSeq(resp, 3, Len(resp)))
  ELSE LET loop == for_rows(Tail(file.rows), SubSeq(resp, 3, Len(resp)),
                            InitialCsv(Head(file.rows)))
           csv_buffer == CsvFile(writerows(loop.new_csv))
       IN IF loop.raised # ""
            THEN except_clause(loop.raised, Processing, file, loop.resp)
          ELSE IF loop.resp[1].outcome # "ok"
            THEN except_clause(S3WriteError, Processing, file, Tail(loop.resp))
          ELSE IF loop.resp[2].outcome # "ok"
            THEN except_clause(DbError, Processing, csv_buffer, SubSeq(loop.resp, 3, Len(loop.resp)))
          ELSE [status |-> Completed, doc |-> csv_buffer]

\* the step is one of process_file(id) or of the upload_csv call that holds id
StepOf(id) ==
  \/ tasks'[id] # tasks[id]
  \/ calls'[id] # calls[id]
  \/ \E r \in 1..Len(requests') :
        /\ requests'[r].requestId = id
        /\ r \in 1..Len(requests) => requests'[r] # requests[r]

\* the step leaves the record and the document of id as they are
Untouched(id) ==
  /\ id \in DOMAIN table' <=> id \in DOMAIN table
  /\ id \in DOMAIN table => table'[id] = table[id]
  /\ id \in DOMAIN csv_bucket' <=> id \in DOMAIN csv_bucket
  /\ id \in DOMAIN csv_bucket => csv_bucket'[id] = csv_bucket[id]

Finished(id) == tasks[id].pc \in {"returned", "raised"}

\* C18: a step of process_file(A), or of the upload that created A, leaves
\* the record and the document of every other job as they are; and when the
\* run of a job has ended, however it was interleaved with the other jobs, the
\* status and the document of the job are those of the run made alone with the
\* same responses to its calls.
C18_JobsAreIndependent ==
  /\ [][\A a, b \in Ids : (a # b /\ StepOf(a)) => Untouched(b)]_vars
  /\ [](\A id \in Ids :
          Finished(id)
            => LET alone == process_file(Original(id), calls[id])
               IN table[id] = alone.status /\ csv_bucket[id] = alone.doc)

\* the run of one job has ended in Completed with three images stored, and
\* the run of the other, which has stored an image too, ended when its second
\* compress_image call raised
C18_Witness ==
  \E a, b \in Ids :
     /\ a # b
     /\ Finished(a) /\ table[a] = Completed /\ Len(CompressCalls(a)) = 3
     /\ Finished(b) /\ table[b] = Failed(FetchError) /\ Len(CompressCalls(b)) = 2
     /\ csv_bucket[b] = Original(b) /\ csv_bucket[a] # Original(a)


\* C16: every job whose upload_csv call returned a requestId gets a terminal
\* status: when its process_file run has ended, after which no step of the
\* job is left to take, the status in its record is Completed or Failed, not
\* Pending or Processing.
C16_EndedRunLeftTerminalStatus ==
  \A r \in 1..Len(requests) :
     (requests[r].code = 200 /\ Finished(requests[r].requestId))
       => Terminal(table[requests[r].requestId])

====
